---- MODULE Spec2Model ----
(***************************************************************************)
(* A model of gmt/figure.py: the Figure class (figure identity, the        *)
(* psconvert/savefig export wrappers, the preview coordinator) together    *)
(* with the two things it acts on: the native engine's active-figure       *)
(* pointer and the file system.                                            *)
(*                                                                         *)
(* Text is a sequence of pieces.  A piece is one of the separators "/",    *)
(* "." and " ", or a maximal run of ordinary characters ("out", "png").    *)
(* Python values that travel in keyword mappings are text too: the str ''  *)
(* is <<>>, the bool True is <<"True">>, the int 300 is <<"300">>.         *)
(***************************************************************************)
EXTENDS Naturals, Sequences, FiniteSets, TLC

\* Number of Figure objects constructed in one run.
MaxFigs == 2

\* Number of threads of the multi-threaded specification.
MaxThreads == 2

VARIABLES
    figState,   \* per Figure object: "unborn", "alive" or "dead"
    name,       \* per Figure object: self._name
    pdir,       \* per Figure object: self._preview_dir.name
    dirs,       \* the directories that exist on disk
    files,      \* the files that exist on disk: path -> content
    active,     \* the engine's active figure (its name), NoFigure at start
    lastOp,     \* the last operation: its inputs, its result, its native calls
    showpc,     \* where the main thread is inside show(external=True)
    viewer,     \* the child process of launch_external_viewer: "none", "running"
    platform,   \* sys.platform
    tpc         \* per thread: its position inside a psconvert call

vars == <<figState, name, pdir, dirs, files, active, lastOp, showpc, viewer,
          platform, tpc>>

FigIds == 1 .. MaxFigs
Threads == 1 .. MaxThreads

NoFigure == <<>>
NoKw == [k \in {} |-> <<>>]
NoFiles == [p \in {} |-> <<>>]

PyTrue == <<"True">>
PyFalse == <<"False">>
PyBool(b) == IF b THEN PyTrue ELSE PyFalse

-----------------------------------------------------------------------------
(* Text helpers *)

\* str.rfind: the last position of piece c in p, 0 when there is none.
RFind(p, c) ==
    LET hits == {i \in 1 .. Len(p) : p[i] = c}
    IN IF hits = {} THEN 0 ELSE CHOOSE i \in hits : \A j \in hits : j <= i

\* os.path.splitext: split at the last dot of the last path component,
\* unless that component consists of leading dots only up to that dot.
Splitext(p) ==
    LET sepIndex == RFind(p, "/")
        dotIndex == RFind(p, ".")
    IN IF /\ dotIndex > sepIndex
          /\ \E i \in (sepIndex + 1) .. (dotIndex - 1) : p[i] # "."
       THEN <<SubSeq(p, 1, dotIndex - 1), SubSeq(p, dotIndex, Len(p))>>
       ELSE <<p, <<>>>>

\* ext[1:]
DropFirst(s) == IF s = <<>> THEN <<>> ELSE Tail(s)

\* os.path.join(a, b) for a relative b.
PathJoin(a, b) == a \o <<"/">> \o b

\* Whether path p lies inside directory d.
Inside(p, d) ==
    /\ Len(p) > Len(d) + 1
    /\ SubSeq(p, 1, Len(d)) = d
    /\ p[Len(d) + 1] = "/"

\* str.upper on the one-letter format codes.
UpperPiece(c) ==
    CASE c = "g" -> "G" [] c = "f" -> "F" [] c = "j" -> "J"
      [] c = "b" -> "B" [] c = "e" -> "E" [] c = "t" -> "T"
      [] OTHER -> c

Upper(s) == [i \in DOMAIN s |-> UpperPiece(s[i])]

-----------------------------------------------------------------------------
(* The native engine, as this layer sees it *)

\* The 'figure' module: "<name> <format>" makes <name> the active figure.
EngineFigure(arg) ==
    LET sp == {i \in 1 .. Len(arg) : arg[i] = " "}
        first == IF sp = {} THEN Len(arg) + 1
                 ELSE CHOOSE i \in sp : \A j \in sp : i <= j
    IN SubSeq(arg, 1, first - 1)

\* The file extension the 'psconvert' module gives each -T format code.
ExtOfCode(code) ==
    CASE code \in {<<"g">>, <<"G">>} -> <<"png">>
      [] code \in {<<"f">>, <<"F">>} -> <<"pdf">>
      [] code = <<"j">> -> <<"jpg">>
      [] code = <<"b">> -> <<"bmp">>
      [] code \in {<<"e">>, <<"E">>} -> <<"eps">>
      [] code = <<"t">> -> <<"tif">>
      [] OTHER -> <<"jpg">>

\* The 'psconvert' module on the active figure: with no -F it fails; else it
\* writes <F>.<extension of T> (JPEG when T is absent).
EnginePsconvert(kw, act, fs) ==
    IF "F" \notin DOMAIN kw \/ act = NoFigure
    THEN [ok |-> FALSE, files |-> fs, touched |-> {}]
    ELSE LET code == IF "T" \in DOMAIN kw THEN kw["T"] ELSE <<"j">>
             path == kw["F"] \o <<".">> \o ExtOfCode(code)
             content == [fig |-> act,
                         dpi |-> IF "E" \in DOMAIN kw THEN kw["E"] ELSE <<>>]
         IN [ok |-> TRUE,
             files |-> (path :> content) @@ fs,
             touched |-> {path}]

-----------------------------------------------------------------------------
(* The decorators of psconvert *)

ShortNames == {"F", "T", "A", "E", "P"}

\* use_alias(F='prefix', T='fmt', A='crop', E='dpi', P='portrait')
AliasOf(short) ==
    CASE short = "F" -> "prefix" [] short = "T" -> "fmt"
      [] short = "A" -> "crop" [] short = "E" -> "dpi"
      [] short = "P" -> "portrait"

LongNames == {AliasOf(s) : s \in ShortNames}

\* use_alias: an option given under its long name is moved to its short name.
UseAlias(kw) ==
    LET moved == {s \in ShortNames : AliasOf(s) \in DOMAIN kw}
    IN [k \in ((DOMAIN kw) \ LongNames) \cup moved |->
            IF k \in moved THEN kw[AliasOf(k)] ELSE kw[k]]

\* kwargs_to_strings(): applied with no conversion named.
KwargsToStrings(kw) == kw

-----------------------------------------------------------------------------
(* Figure.psconvert *)

\* A variant of FigureCall with the two format arguments swapped.
FigureCallSwapped(nm) == [module |-> "figure", text |-> <<"-", " ">> \o nm, kw |-> NoKw]

\* figure(name): one native call, 'figure' with "<name> -".
FigureCall(nm) == [module |-> "figure", text |-> nm \o <<" ", "-">>, kw |-> NoKw]

\* A variant of Preprocess that skips the select call.
PreprocessSkipsSelect(nm) == <<>>

\* Figure._preprocess: the native calls made before the module call.
Preprocess(nm) == <<FigureCall(nm)>>

\* A variant of ApplyDefaults that sets A and P whatever the caller gave.
ApplyDefaultsAlways(kw) == ("A" :> <<>>) @@ ("P" :> <<>>) @@ kw

\* The defaults of psconvert: A and P are set to '' when absent.
ApplyDefaults(kw) ==
    LET withA == IF "A" \notin DOMAIN kw THEN ("A" :> <<>>) @@ kw ELSE kw
    IN IF "P" \notin DOMAIN withA THEN ("P" :> <<>>) @@ withA ELSE withA

\* The engine's active figure after a sequence of native calls.
RECURSIVE ActiveAfter(_, _)
ActiveAfter(calls, act) ==
    IF calls = <<>> THEN act
    ELSE ActiveAfter(Tail(calls),
                     IF Head(calls).module = "figure"
                     THEN EngineFigure(Head(calls).text) ELSE act)

\* psconvert up to and including self._preprocess(**kwargs).
PsconvertSelect(nm, kwargs, act) ==
    LET pre == Preprocess(nm)
    IN [received |-> KwargsToStrings(UseAlias(kwargs)),
        calls |-> pre,
        active |-> ActiveAfter(pre, act)]

\* psconvert after _preprocess: the defaults, then the native 'psconvert'
\* call, which acts on whatever figure is active when it runs.
PsconvertConvert(received, act, fs) ==
    LET kw == ApplyDefaults(received)
        eng == EnginePsconvert(kw, act, fs)
    IN [result |-> IF eng.ok THEN "ok" ELSE "GMTError",
        calls |-> <<[module |-> "psconvert", text |-> <<>>, kw |-> kw]>>,
        activeAtConvert |-> act,
        files |-> eng.files,
        touched |-> eng.touched]

\* The decorated psconvert run without interruption.
PsconvertOutcome(nm, kwargs, act, fs) ==
    LET sel == PsconvertSelect(nm, kwargs, act)
        conv == PsconvertConvert(sel.received, sel.active, fs)
    IN [result |-> conv.result,
        wrapper |-> NoKw,
        received |-> sel.received,
        calls |-> sel.calls \o conv.calls,
        activeAtConvert |-> conv.activeAtConvert,
        active |-> sel.active,
        files |-> conv.files,
        touched |-> conv.touched]

-----------------------------------------------------------------------------
(* Figure.savefig *)

\* fmts = dict(png='g', pdf='f', jpg='j', bmp='b', eps='e', tif='t')
fmts ==
    (<<"png">> :> <<"g">>) @@ (<<"pdf">> :> <<"f">>) @@ (<<"jpg">> :> <<"j">>)
    @@ (<<"bmp">> :> <<"b">>) @@ (<<"eps">> :> <<"e">>) @@ (<<"tif">> :> <<"t">>)

\* A variant of OrientationOk that checks nothing.
OrientationAlwaysOk(orientation) == TRUE

OrientationOk(orientation) == orientation \in {"portrait", "landscape"}

ExtensionOk(ext) == ext \in DOMAIN fmts

TransparencyOk(transparent, ext) == transparent => ext = <<"png">>

\* A variant of FmtCode that never uppercases.
FmtCodeNeverUpper(ext, transparent) == fmts[ext]

FmtCode(ext, transparent) ==
    IF transparent THEN Upper(fmts[ext]) ELSE fmts[ext]

\* The keywords savefig names itself in its call of psconvert (crop is a
\* parameter of savefig, so it never arrives in **kwargs); one of them among
\* **kwargs is a TypeError at the call.
SavefigOwnKeys == {"prefix", "fmt", "portrait"}

\* a = [fname, orientation, transparent, crop, kwargs]
SavefigOutcome(nm, a, act, fs) ==
    LET failed(err) == [result |-> err, wrapper |-> NoKw, received |-> NoKw,
                        calls |-> <<>>, activeAtConvert |-> NoFigure,
                        active |-> act, files |-> fs, touched |-> {}]
        split == Splitext(a.fname)
        prefix == split[1]
        ext == DropFirst(split[2])
    IN IF ~OrientationOk(a.orientation) THEN failed("AssertionError")
       ELSE IF ~ExtensionOk(ext) THEN failed("AssertionError")
       ELSE IF ~TransparencyOk(a.transparent, ext) THEN failed("AssertionError")
       ELSE IF (DOMAIN a.kwargs) \cap SavefigOwnKeys # {} THEN failed("TypeError")
       ELSE LET wrapper == ("prefix" :> prefix)
                           @@ ("fmt" :> FmtCode(ext, a.transparent))
                           @@ ("crop" :> PyBool(a.crop))
                           @@ ("portrait" :> PyBool(a.orientation = "portrait"))
                           @@ a.kwargs
            IN [PsconvertOutcome(nm, wrapper, act, fs) EXCEPT !.wrapper = wrapper]

-----------------------------------------------------------------------------
(* Figure._preview and its callers *)

NoRet == [kind |-> "none", path |-> <<>>, data |-> <<>>]

\* A variant of PreviewPath that leaves the preview directory out.
PreviewPathInCurDir(dir, nm, fmt) == <<".", "/">> \o nm \o <<".">> \o fmt

\* '{}.{}'.format(self._name, fmt) inside self._preview_dir.name
PreviewPath(dir, nm, fmt) == PathJoin(dir, nm \o <<".">> \o fmt)

\* savefig_args of _preview: dpi, and Qg=4, Qt=4 with anti-aliasing.
PreviewArgs(dpi, antiAlias) ==
    IF antiAlias
    THEN ("dpi" :> dpi) @@ ("Qg" :> <<"4">>) @@ ("Qt" :> <<"4">>)
    ELSE ("dpi" :> dpi)

\* p = [fmt, dpi, antiAlias, asBytes]
PreviewOutcome(nm, dir, p, act, fs) ==
    LET fname == PreviewPath(dir, nm, p.fmt)
        out == SavefigOutcome(nm,
                   [fname |-> fname, orientation |-> "portrait",
                    transparent |-> FALSE, crop |-> TRUE,
                    kwargs |-> PreviewArgs(p.dpi, p.antiAlias)], act, fs)
    IN [out |-> IF out.result = "ok" /\ p.asBytes /\ fname \notin DOMAIN out.files
                THEN [out EXCEPT !.result = "FileNotFoundError"]
                ELSE out,
        ret |-> IF out.result # "ok" THEN NoRet
                ELSE IF ~p.asBytes
                THEN [kind |-> "path", path |-> fname, data |-> <<>>]
                ELSE IF fname \in DOMAIN out.files
                THEN [kind |-> "bytes", path |-> <<>>, data |-> out.files[fname]]
                ELSE NoRet]

\* The preview each public entry point asks for.
ShowExternalPreview == [fmt |-> <<"pdf">>, dpi |-> <<"600">>, antiAlias |-> FALSE, asBytes |-> FALSE]
ShowInlinePreview(dpi) == [fmt |-> <<"png">>, dpi |-> dpi, antiAlias |-> TRUE, asBytes |-> TRUE]
ReprPngPreview == [fmt |-> <<"png">>, dpi |-> <<"70">>, antiAlias |-> TRUE, asBytes |-> TRUE]
ReprHtmlPreview == [fmt |-> <<"png">>, dpi |-> <<"300">>, antiAlias |-> TRUE, asBytes |-> TRUE]

\* launch_external_viewer: whether the launch waits for the child to exit
\* (subprocess.run does; webbrowser.open_new_tab hands the URL over).
LaunchWaits(plat) == plat \in {"linux", "darwin"}

-----------------------------------------------------------------------------
(* Figure.__init__ and Figure.__del__ *)

\* The random pieces tempfile draws file names from.
NamePieces == {"a", "b"}

\* The random pieces tempfile draws directory names from, in the order the
\* model tries them.
DirPieces == <<"1", "2", "3", "4">>

CurDir == <<".">>
TmpDir == <<"tmp">>

\* The paths NamedTemporaryFile(prefix='gmt-python-', dir=os.path.curdir) may
\* create: a random name whose file does not exist yet.
TempFileChoices(fs) ==
    {PathJoin(CurDir, <<"gmt-python-", c>>) : c \in NamePieces} \ DOMAIN fs

\* The file NamedTemporaryFile creates, empty, and what tmpfile.close() makes
\* of it with delete=True.
EmptyFile == [fig |-> NoFigure, dpi |-> <<>>]
TempFileCreate(path, fs) == (path :> EmptyFile) @@ fs

\* A variant of TempFileClose for delete=False.
TempFileCloseKeeps(path, fs) == fs

TempFileClose(path, fs) == [p \in (DOMAIN fs) \ {path} |-> fs[p]]

\* os.path.split(path)[-1]
Basename(path) == SubSeq(path, RFind(path, "/") + 1, Len(path))

\* The directory TemporaryDirectory(prefix=name + '-preview-') creates: one
\* that does not exist.  The random pieces are interchangeable, so the model
\* takes the first free one.
TempDirChoices(nm, ds) ==
    LET cand(i) == PathJoin(TmpDir, nm \o <<"-preview-", DirPieces[i]>>)
        free == {i \in DOMAIN DirPieces : cand(i) \notin ds}
    IN {cand(i) : i \in {j \in free : \A k \in free : j <= k}}

\* A variant of Cleanup that removes nothing inside the directory.
CleanupKeepsFiles(dir, fs) == fs

\* TemporaryDirectory.cleanup: the directory and all it holds are removed.
Cleanup(dir, fs) == [p \in {q \in DOMAIN fs : ~Inside(q, dir)} |-> fs[p]]

-----------------------------------------------------------------------------
(* Inputs *)

Platforms == {"linux", "darwin", "win32"}

\* File names given to savefig.
OutPng == <<"out", ".", "png">>
ValidFnames ==
    {OutPng, <<"out", ".", "pdf">>, <<"out", ".", "jpg">>, <<"out", ".", "bmp">>,
     <<"out", ".", "eps">>, <<"v", ".", "2", ".", "tif">>}
OddFnames ==
    {<<"out">>, <<"out", ".", "gif">>, <<"out", ".", "PNG">>, <<".", "png">>,
     <<"a", ".", "png", "/", "out">>}

Orientations == {"portrait", "landscape", "Portrait"}

\* Additional keyword options given to savefig.
ExtraKwargs == {NoKw, ("Qg" :> <<"2">>), ("prefix" :> <<"other">>)}

\* Every file name with every orientation and transparency, and every
\* combination of the other arguments for two of the file names.
AllSavefigArgs ==
    [fname : ValidFnames \cup OddFnames, orientation : Orientations,
     transparent : BOOLEAN, crop : {TRUE}, kwargs : {NoKw}]
    \cup
    [fname : {OutPng, <<"out", ".", "pdf">>}, orientation : Orientations,
     transparent : BOOLEAN, crop : BOOLEAN, kwargs : ExtraKwargs]

FewSavefigArgs ==
    [fname : {OutPng}, orientation : {"portrait"},
     transparent : {FALSE}, crop : {TRUE}, kwargs : {NoKw}]

\* Keyword mappings given to psconvert directly.
FewPsconvertArgs ==
    {("F" :> <<"out">>) @@ ("T" :> <<"g">>),
     ("T" :> <<"g">>)}

AllPsconvertArgs ==
    FewPsconvertArgs \cup
    {("F" :> <<"out">>) @@ ("T" :> <<"f">>) @@ ("A" :> <<"u">>),
     ("F" :> <<"out">>) @@ ("T" :> <<"g">>) @@ ("P" :> PyFalse),
     ("prefix" :> <<"out">>) @@ ("fmt" :> <<"j">>) @@ ("crop" :> PyFalse)
         @@ ("portrait" :> PyTrue) @@ ("dpi" :> <<"300">>),
     ("F" :> <<"out">>) @@ ("A" :> <<>>) @@ ("P" :> <<>>)}

\* Direct calls of _preview.
PreviewInputs ==
    {[fmt |-> <<"png">>, dpi |-> <<"70">>, antiAlias |-> FALSE, asBytes |-> FALSE]}

-----------------------------------------------------------------------------
(* State *)

IdleThread ==
    [pc |-> "idle", fig |-> 0, received |-> NoKw, calls |-> <<>>, intruded |-> FALSE]

NoOut ==
    [result |-> "ok", wrapper |-> NoKw, received |-> NoKw, calls |-> <<>>,
     activeAtConvert |-> NoFigure, touched |-> {}]

\* The record kept of an operation.
OpRecord(op, f, args, out, ret, intruded) ==
    [op |-> op, fig |-> f, args |-> args, result |-> out.result,
     wrapper |-> out.wrapper, received |-> out.received, calls |-> out.calls,
     activeAtConvert |-> out.activeAtConvert, touched |-> out.touched,
     ret |-> ret, intruded |-> intruded]

Init ==
    /\ figState = [f \in FigIds |-> "unborn"]
    /\ name = [f \in FigIds |-> <<>>]
    /\ pdir = [f \in FigIds |-> <<>>]
    /\ dirs = {}
    /\ files = NoFiles
    /\ active = NoFigure
    /\ lastOp = OpRecord("start", 0, <<>>, NoOut, NoRet, FALSE)
    /\ showpc = "idle"
    /\ viewer = "none"
    /\ platform \in Platforms
    /\ tpc = [t \in Threads |-> IdleThread]

Alive(f) == figState[f] = "alive"

\* The main thread is between operations, and no thread is inside one.
Quiet == showpc = "idle" /\ \A t \in Threads : tpc[t].pc = "idle"

\* The effects of a finished operation on the engine and the disk.
Apply(op, f, args, out, ret) ==
    /\ active' = out.active
    /\ files' = out.files
    /\ lastOp' = OpRecord(op, f, args, out, ret, FALSE)

-----------------------------------------------------------------------------
(* Operations *)

\* Figure(): unique_name(), then the preview directory.
Construct ==
    \E f \in FigIds :
        /\ Quiet
        /\ figState[f] = "unborn"
        /\ \A g \in FigIds : g < f => figState[g] # "unborn"
        /\ \E tmp \in TempFileChoices(files) :
            \E d \in TempDirChoices(Basename(tmp), dirs) :
                /\ figState' = [figState EXCEPT ![f] = "alive"]
                /\ name' = [name EXCEPT ![f] = Basename(tmp)]
                /\ pdir' = [pdir EXCEPT ![f] = d]
                /\ dirs' = dirs \cup {d}
                /\ files' = TempFileClose(tmp, TempFileCreate(tmp, files))
                /\ lastOp' = OpRecord("init", f, <<>>,
                                      [NoOut EXCEPT !.touched = {tmp, d}],
                                      NoRet, FALSE)
        /\ UNCHANGED <<active, showpc, viewer, platform, tpc>>

\* Figure.__del__
Destroy ==
    \E f \in FigIds :
        /\ Quiet
        /\ Alive(f)
        /\ figState' = [figState EXCEPT ![f] = "dead"]
        /\ dirs' = dirs \ {pdir[f]}
        /\ files' = Cleanup(pdir[f], files)
        /\ lastOp' = OpRecord("del", f, <<>>,
                              [NoOut EXCEPT !.touched =
                                  {pdir[f]} \cup ((DOMAIN files) \ DOMAIN files')],
                              NoRet, FALSE)
        /\ UNCHANGED <<name, pdir, active, showpc, viewer, platform, tpc>>

PsconvertWith(inputs) ==
    \E f \in FigIds, kw \in inputs :
        /\ Quiet
        /\ Alive(f)
        /\ Apply("psconvert", f, kw, PsconvertOutcome(name[f], kw, active, files), NoRet)
        /\ UNCHANGED <<figState, name, pdir, dirs, showpc, viewer, platform, tpc>>

SavefigWith(inputs) ==
    \E f \in FigIds, a \in inputs :
        /\ Quiet
        /\ Alive(f)
        /\ Apply("savefig", f, a, SavefigOutcome(name[f], a, active, files), NoRet)
        /\ UNCHANGED <<figState, name, pdir, dirs, showpc, viewer, platform, tpc>>

\* What each caller of _preview returns.
AsImage(ret) == [kind |-> "image", path |-> <<>>, data |-> [png |-> ret.data, width |-> <<"500">>]]
AsHtml(ret) == [kind |-> "html", path |-> <<>>, data |-> [base64 |-> ret.data, width |-> <<"500">>]]
ReturnOf(op, ret) ==
    CASE op = "show" -> AsImage(ret)
      [] op = "_repr_html_" -> AsHtml(ret)
      [] OTHER -> ret

PreviewOp(op, f, p) ==
    LET pv == PreviewOutcome(name[f], pdir[f], p, active, files)
    IN /\ Quiet
       /\ Alive(f)
       /\ Apply(op, f, p, pv.out,
                IF pv.out.result = "ok" THEN ReturnOf(op, pv.ret) ELSE NoRet)
       /\ UNCHANGED <<figState, name, pdir, dirs, showpc, viewer, platform, tpc>>

Psconvert == PsconvertWith(FewPsconvertArgs)
PsconvertAny == PsconvertWith(AllPsconvertArgs)
Savefig == SavefigWith(FewSavefigArgs)
SavefigAny == SavefigWith(AllSavefigArgs)

\* Figure._preview called directly.
Preview == \E f \in FigIds, p \in PreviewInputs : PreviewOp("_preview", f, p)

\* Figure.show(external=False)
ShowInline == \E f \in FigIds : PreviewOp("show", f, ShowInlinePreview(<<"300">>))

\* Figure._repr_png_
ReprPng == \E f \in FigIds : PreviewOp("_repr_png_", f, ReprPngPreview)

\* Figure._repr_html_
ReprHtml == \E f \in FigIds : PreviewOp("_repr_html_", f, ReprHtmlPreview)

\* Figure.show(external=True) up to the start of the viewer.
ShowExternal ==
    \E f \in FigIds :
        LET pv == PreviewOutcome(name[f], pdir[f], ShowExternalPreview, active, files)
        IN /\ Quiet
           /\ Alive(f)
           /\ Apply("show_external", f, ShowExternalPreview, pv.out, NoRet)
           /\ showpc' = IF pv.out.result = "ok" THEN "launched" ELSE "idle"
           /\ viewer' = IF pv.out.result = "ok" THEN "running" ELSE viewer
           /\ UNCHANGED <<figState, name, pdir, dirs, platform, tpc>>

\* The viewer exits, when it does.
ViewerExit ==
    /\ viewer = "running"
    /\ viewer' = "none"
    /\ UNCHANGED <<figState, name, pdir, dirs, files, active, lastOp, showpc,
                   platform, tpc>>

\* launch_external_viewer returns, and show with it.
ShowReturn ==
    /\ showpc = "launched"
    /\ LaunchWaits(platform) => viewer # "running"
    /\ showpc' = "idle"
    /\ UNCHANGED <<figState, name, pdir, dirs, files, active, lastOp, viewer,
                   platform, tpc>>

\* A thread enters psconvert and runs it up to the end of _preprocess.
ThreadSelect ==
    \E t \in Threads, f \in FigIds, kw \in FewPsconvertArgs :
        LET sel == PsconvertSelect(name[f], kw, active)
        IN /\ showpc = "idle"
           /\ Alive(f)
           /\ tpc[t].pc = "idle"
           /\ active' = sel.active
           /\ tpc' = [u \in Threads |->
                        IF u = t
                        THEN [pc |-> "selected", fig |-> f,
                              received |-> sel.received, calls |-> sel.calls,
                              intruded |-> FALSE]
                        ELSE IF tpc[u].pc = "selected" /\ sel.calls # <<>>
                        THEN [tpc[u] EXCEPT !.intruded = TRUE]
                        ELSE tpc[u]]
           /\ UNCHANGED <<figState, name, pdir, dirs, files, lastOp, showpc,
                          viewer, platform>>

\* A thread runs the rest of psconvert: the defaults and the native call.
ThreadConvert ==
    \E t \in Threads :
        LET f == tpc[t].fig
            conv == PsconvertConvert(tpc[t].received, active, files)
        IN /\ tpc[t].pc = "selected"
           /\ files' = conv.files
           /\ lastOp' = [op |-> "psconvert", fig |-> f, args |-> tpc[t].received,
                         result |-> conv.result, wrapper |-> NoKw,
                         received |-> tpc[t].received,
                         calls |-> tpc[t].calls \o conv.calls,
                         activeAtConvert |-> conv.activeAtConvert,
                         touched |-> conv.touched, ret |-> NoRet,
                         intruded |-> tpc[t].intruded]
           /\ tpc' = [tpc EXCEPT ![t] = IdleThread]
           /\ UNCHANGED <<figState, name, pdir, dirs, active, showpc, viewer,
                          platform>>

-----------------------------------------------------------------------------
(* Specifications *)

\* A run on Linux: the platform matters to the viewer alone.
InitLinux == Init /\ platform = "linux"

\* One thread, any interleaving of operations on the figures.
Next ==
    \/ Construct
    \/ Destroy
    \/ Psconvert
    \/ Savefig
    \/ Preview
    \/ ShowInline
    \/ ReprPng
    \/ ReprHtml
    \/ ShowExternal
    \/ ViewerExit
    \/ ShowReturn

Spec == InitLinux /\ [][Next]_vars

\* One figure, every argument of savefig and psconvert.
ConstructFirst == figState[1] = "unborn" /\ Construct

NextArgs ==
    \/ ConstructFirst
    \/ SavefigAny
    \/ PsconvertAny

SpecArgs == InitLinux /\ [][NextArgs]_vars

\* Showing figures, on every platform.
NextShow ==
    \/ Construct
    \/ Destroy
    \/ ShowInline
    \/ ShowExternal
    \/ ViewerExit
    \/ ShowReturn

SpecShow == Init /\ [][NextShow]_vars

\* Several threads, each inside its own psconvert call.
NextThreads ==
    \/ Construct
    \/ ThreadSelect
    \/ ThreadConvert

SpecThreads == InitLinux /\ [][NextThreads]_vars

-----------------------------------------------------------------------------
(* Properties *)

RecognizedExtensions ==
    {<<"png">>, <<"pdf">>, <<"jpg">>, <<"bmp">>, <<"eps">>, <<"tif">>}

\* The extension of a file name, as os.path.splitext defines it.
ExtensionOf(fname) == DropFirst(Splitext(fname)[2])

InvalidSavefigArgs(a) ==
    \/ ExtensionOf(a.fname) \notin RecognizedExtensions
    \/ a.orientation \notin {"portrait", "landscape"}
    \/ a.transparent /\ ExtensionOf(a.fname) # <<"png">>

ClashingKwargs(a) == (DOMAIN a.kwargs) \cap {"prefix", "fmt", "portrait"} # {}

ConvertCallsOf(op) == SelectSeq(op.calls, LAMBDA c : c.module = "psconvert")

ExportOps == {"savefig", "show", "show_external", "_repr_png_", "_repr_html_", "_preview"}
PreviewOps == ExportOps \ {"savefig"}

\* C1: a savefig call with an unrecognized extension, an orientation other
\* than 'portrait' and 'landscape', or transparency for a non-png extension
\* fails with an AssertionError, makes no native call (neither the select
\* nor the convert call), and leaves the active figure and the disk as they
\* were.
C1_InvalidArgumentsRejected ==
    [][(lastOp'.op = "savefig" /\ InvalidSavefigArgs(lastOp'.args))
          => /\ lastOp'.result = "AssertionError"
             /\ lastOp'.calls = <<>>
             /\ active' = active
             /\ files' = files
             /\ dirs' = dirs]_vars

\* C1 happens: transparency was asked for a pdf, with a figure active in the
\* engine and a file on disk.
C1_Witness ==
    /\ lastOp.op = "savefig"
    /\ lastOp.args.transparent
    /\ lastOp.args.orientation = "portrait"
    /\ ExtensionOf(lastOp.args.fname) = <<"pdf">>
    /\ lastOp.result = "AssertionError"
    /\ active # NoFigure
    /\ DOMAIN files # {}

\* C2: every psconvert call, and every export or preview that reaches
\* psconvert, issues exactly two native calls: 'figure' with the figure's own
\* name and the '-' sentinel, then 'psconvert'; and the engine's active
\* figure when 'psconvert' runs is the name of the figure that issued it.
C2_SelectBeforeEveryConvert ==
    LET f == lastOp.fig
        reaches == \/ lastOp.op = "psconvert"
                   \/ /\ lastOp.op \in ExportOps
                      /\ lastOp.result \notin {"AssertionError", "TypeError"}
    IN /\ reaches =>
            /\ Len(lastOp.calls) = 2
            /\ lastOp.calls[1] = [module |-> "figure",
                                  text |-> name[f] \o <<" ", "-">>, kw |-> NoKw]
            /\ lastOp.calls[2].module = "psconvert"
            /\ lastOp.activeAtConvert = name[f]
            /\ active = name[f]
       /\ ~reaches => lastOp.calls = <<>>

\* C2 happens: a figure converts after another live figure, of another name,
\* has written a file.
C2_Witness ==
    /\ lastOp.op = "psconvert"
    /\ lastOp.result = "ok"
    /\ \E g \in FigIds :
        /\ g # lastOp.fig
        /\ Alive(g)
        /\ name[g] # name[lastOp.fig]
        /\ \E p \in DOMAIN files : files[p].fig = name[g]

\* C3: any two Figure objects constructed in one run have distinct names.
C3_NamesNeverRepeat ==
    \A f, g \in FigIds :
        (f # g /\ figState[f] # "unborn" /\ figState[g] # "unborn")
            => name[f] # name[g]

\* The format code of each recognized extension.
CodeTable(ext) ==
    CASE ext = <<"png">> -> "g" [] ext = <<"pdf">> -> "f" [] ext = <<"jpg">> -> "j"
      [] ext = <<"bmp">> -> "b" [] ext = <<"eps">> -> "e" [] ext = <<"tif">> -> "t"

\* C4: a savefig call with valid arguments makes one convert call, whose
\* format code is the table's code of the extension, uppercased exactly when
\* transparent is true, whose prefix is fname without its extension, and
\* which carries every additional keyword option as given.
C4_SavefigTranslation ==
    (lastOp.op = "savefig" /\ ~InvalidSavefigArgs(lastOp.args)
        /\ ~ClashingKwargs(lastOp.args))
    => LET a == lastOp.args
           ext == ExtensionOf(a.fname)
           w == lastOp.wrapper
       IN /\ Len(ConvertCallsOf(lastOp)) = 1
          /\ DOMAIN w = {"prefix", "fmt", "crop", "portrait"} \cup DOMAIN a.kwargs
          /\ w["fmt"] = <<IF a.transparent THEN "G" ELSE CodeTable(ext)>>
          /\ w["prefix"] \o <<".">> \o ext = a.fname
          /\ \A k \in DOMAIN a.kwargs : w[k] = a.kwargs[k]

\* C4 happens: a transparent png was saved with an additional option.
C4_Witness ==
    /\ lastOp.op = "savefig"
    /\ lastOp.result = "ok"
    /\ lastOp.args.transparent
    /\ lastOp.args.kwargs # NoKw
    /\ lastOp.wrapper["fmt"] = <<"G">>
    /\ OutPng \in DOMAIN files

\* C5: a figure's name never changes once it is constructed; its preview
\* directory exists while the figure is alive; and when the figure is
\* destroyed, the directory and every file in it are gone from the disk.
C5_NameFixedAndDirLifetime ==
    [][/\ \A f \in FigIds :
            figState[f] # "unborn" => (name'[f] = name[f] /\ pdir'[f] = pdir[f])
       /\ \A f \in FigIds : figState'[f] = "alive" => pdir'[f] \in dirs'
       /\ \A f \in FigIds :
            (figState[f] = "alive" /\ figState'[f] # "alive")
                => /\ figState'[f] = "dead"
                   /\ pdir[f] \notin dirs'
                   /\ \A p \in DOMAIN files' : ~Inside(p, pdir[f])]_vars

\* C5 happens: a figure that had previews was destroyed.
C5_Witness ==
    /\ lastOp.op = "del"
    /\ \E p \in lastOp.touched : Inside(p, pdir[lastOp.fig])
    /\ pdir[lastOp.fig] \notin dirs

\* C6: a preview writes <preview-dir>/<figure-name>.<format> and nothing
\* else, the file then holding this preview, every other file staying as it
\* was; so a preview directory holds at most one file per format, named after
\* its figure (two files of one format would have one path).
C6_FixedPreviewPath ==
    [][/\ (lastOp'.op \in PreviewOps /\ lastOp'.result = "ok") =>
            LET f == lastOp'.fig
                target == pdir[f] \o <<"/">> \o name[f] \o <<".">> \o lastOp'.args.fmt
            IN /\ lastOp'.touched = {target}
               /\ target \in DOMAIN files'
               /\ files'[target] = [fig |-> name[f], dpi |-> lastOp'.args.dpi]
               /\ DOMAIN files' = (DOMAIN files) \cup {target}
               /\ \A p \in (DOMAIN files) \ {target} : files'[p] = files[p]
       /\ \A f \in FigIds : figState'[f] = "alive" =>
            \A p \in DOMAIN files' :
                Inside(p, pdir'[f]) =>
                    p = pdir'[f] \o <<"/">> \o name'[f] \o Splitext(p)[2]]_vars

\* C6 happens: a png preview was made again, at another resolution, beside a
\* pdf preview.
C6_Witness ==
    /\ lastOp.op = "_repr_png_"
    /\ lastOp.result = "ok"
    /\ lastOp.ret.data.dpi = <<"70">>
    /\ \E p, q \in DOMAIN files :
        /\ Inside(p, pdir[lastOp.fig]) /\ Splitext(p)[2] = <<".", "png">>
        /\ Inside(q, pdir[lastOp.fig]) /\ Splitext(q)[2] = <<".", "pdf">>

\* C7: once show(external=True) has started the viewer, its return does not
\* depend on the viewer: it can return whether or not the child has exited.
C7_ShowDoesNotWait == showpc = "launched" => ENABLED ShowReturn

InPreviewDir(p, f) == p = pdir[f] \/ Inside(p, pdir[f])

\* C9 as stated: every path an operation creates, writes or deletes is in a
\* figure's preview directory or is the file name given to savefig.
C9_OnlyPreviewDirAndSavefigPath ==
    \A p \in lastOp.touched :
        \/ \E f \in FigIds : figState[f] # "unborn" /\ InPreviewDir(p, f)
        \/ lastOp.op = "savefig" /\ p = lastOp.args.fname

\* C9, amended: every path an operation creates, writes or deletes is in the
\* figure's own preview directory, is the output path given to savefig or
\* psconvert, or is the temporary file ./gmt-python-* of the construction,
\* which leaves no file behind; files not named so stay as they were, and a
\* savefig to a path outside the preview directories leaves them unchanged.
C9_FileEffectsAmended ==
    [][LET op == lastOp'
           f == op.fig
       IN /\ \A p \in op.touched :
                \/ /\ op.op \in PreviewOps \cup {"init", "del"}
                   /\ (p = pdir'[f] \/ Inside(p, pdir'[f]))
                \/ op.op = "savefig" /\ p = op.args.fname
                \/ /\ op.op = "psconvert"
                   /\ \E k \in {"F", "prefix"} \cap DOMAIN op.args :
                        Splitext(p)[1] = op.args[k]
                \/ op.op = "init" /\ p = <<".", "/">> \o name'[f]
          /\ op.op = "init" => files' = files
          /\ \A p \in ((DOMAIN files) \cup DOMAIN files') \ op.touched :
                p \in DOMAIN files /\ p \in DOMAIN files' /\ files'[p] = files[p]
          /\ (op.op = "savefig" /\ \A g \in FigIds : ~Inside(op.args.fname, pdir[g]))
                => \A g \in FigIds : \A p \in DOMAIN files \cup DOMAIN files' :
                        Inside(p, pdir[g]) =>
                            p \in DOMAIN files /\ p \in DOMAIN files'
                            /\ files'[p] = files[p]]_vars

\* C9 happens: a figure with a preview on disk was saved to out.png.
C9_Witness ==
    /\ lastOp.op = "savefig"
    /\ lastOp.result = "ok"
    /\ lastOp.touched = {OutPng}
    /\ \E p \in DOMAIN files : Inside(p, pdir[lastOp.fig])

\* C10: with threads, the active figure seen by a psconvert call differs
\* from the calling figure's name only when another thread's select call
\* ran between this call's select and its convert; and that does happen.
C10_RaceOnlyByInterleaving ==
    (lastOp.op = "psconvert" /\ lastOp.activeAtConvert # name[lastOp.fig])
        => lastOp.intruded

\* C10 happens: figure A's convert ran while figure B was active, and wrote
\* figure B.
C10_Witness ==
    /\ lastOp.op = "psconvert"
    /\ lastOp.result = "ok"
    /\ \E g \in FigIds :
        /\ g # lastOp.fig
        /\ Alive(g)
        /\ name[g] # name[lastOp.fig]
        /\ lastOp.activeAtConvert = name[g]
        /\ \E p \in lastOp.touched : files[p].fig = name[g]

====
